---- MODULE Spec2Model ----
(***************************************************************************)
(* carquet: converts the blocks of a CAR archive (DAG-CBOR records) into   *)
(* one parquet file per inferred record shape.  The model follows          *)
(* src/src/main.rs: main (read loop, grouping, sort, per-bucket writer     *)
(* protocol), schema, parquet_schema, parquet_write_col and resolve_index. *)
(***************************************************************************)
EXTENDS Integers, Sequences, FiniteSets, TLC

\* ---------------------------------------------------------------- bounds
\* longest archive read when the blocks range over every payload
MaxBlocks == 2
\* longest archive read when the blocks range over the grouping payloads
MaxRecords == 3
\* width of the column integer in bits; the code's is 64 (i as i64), scaled
\* down because TLC's integers are 32 bits wide.  Ipld integers are
\* wider (i128); the DAG-CBOR decoder produces -(2^IntBits) .. 2^IntBits - 1.
IntBits == 8

RECURSIVE Pow2(_)
Pow2(n) == IF n = 0 THEN 1 ELSE 2 * Pow2(n - 1)

\* ------------------------------------------------------- structured values
\* libipld::Ipld, a tagged union; Map is a BTreeMap<String, Ipld>, modelled
\* as a function from its key set.
INull        == [tag |-> "Null"]
IBool(b)     == [tag |-> "Bool", v |-> b]
IInteger(n)  == [tag |-> "Integer", v |-> n]
IFloat(f)    == [tag |-> "Float", v |-> f]
IString(s)   == [tag |-> "String", v |-> s]
IBytes(b)    == [tag |-> "Bytes", v |-> b]
ILink(c)     == [tag |-> "Link", v |-> c]
IList(l)     == [tag |-> "List", v |-> l]
IMap(m)      == [tag |-> "Map", v |-> m]

\* String ordering (Ord for String) on the keys the model uses: a key is
\* smaller when it comes earlier in this list.
KeyOrder == <<"0", "cid", "data", "f", "k", "l", "m", "n", "s", "x", "y">>

KeyRank(k) == CHOOSE j \in 1..Len(KeyOrder) : KeyOrder[j] = k

\* iteration order of a BTreeMap: ascending keys
BTreeKeys(m) == SelectSeq(KeyOrder, LAMBDA k : k \in DOMAIN m)

\* ------------------------------------------------------------------ shapes
\* enum Schema
SNull     == [tag |-> "Null"]
SBool     == [tag |-> "Bool"]
SInteger  == [tag |-> "Integer"]
SFloat    == [tag |-> "Float"]
SString   == [tag |-> "String"]
SBytes    == [tag |-> "Bytes"]
SLink     == [tag |-> "Link"]
SList(s)  == [tag |-> "List", elem |-> s]
SMap(fs)  == [tag |-> "Map", fields |-> fs]

\* Vec::sort_by_key(|i| i.0): a stable insertion of each pair by its key
RECURSIVE sort_by_key(_)
sort_by_key(sm) ==
    IF Len(sm) <= 1 THEN sm
    ELSE LET rest == sort_by_key(SubSeq(sm, 1, Len(sm) - 1))
             last == sm[Len(sm)]
             before == SelectSeq(rest, LAMBDA e : KeyRank(e[1]) <= KeyRank(last[1]))
             after  == SelectSeq(rest, LAMBDA e : KeyRank(e[1]) > KeyRank(last[1]))
         IN  before \o <<last>> \o after

\* fn schema(dag: &Ipld) -> Schema
RECURSIVE schema(_)
schema(dag) ==
    CASE dag.tag = "Null"    -> SNull
      [] dag.tag = "Bool"    -> SBool
      [] dag.tag = "Integer" -> SInteger
      [] dag.tag = "Float"   -> SFloat
      [] dag.tag = "String"  -> SString
      [] dag.tag = "Bytes"   -> SBytes
      [] dag.tag = "Link"    -> SLink
      [] dag.tag = "List"    ->
            SList(IF Len(dag.v) > 0 THEN schema(dag.v[1]) ELSE SNull)
      [] dag.tag = "Map"     ->
            LET ks == BTreeKeys(dag.v)
                sm == [j \in 1..Len(ks) |-> <<ks[j], schema(dag.v[ks[j]])>>]
            IN  SMap(sort_by_key(sm))

\* the key under which main groups a record (lines 26-30)
RecordSchema(dag) == SMap(<< <<"cid", SBytes>>, <<"data", schema(dag)>> >>)

\* ----------------------------------------------------- columnar declaration
\* parquet::schema::types::Type as built by the builders; Todo stands for
\* the todo!() panic, which unwinds through every enclosing call.
Todo == [kind |-> "todo"]

Repetition(repeated) == IF repeated THEN "REPEATED" ELSE "REQUIRED"

Primitive(name, ptype, repeated, annotation) ==
    [kind |-> "primitive", name |-> name, ptype |-> ptype,
     repetition |-> Repetition(repeated), annotation |-> annotation]

Group(name, repeated, fields) ==
    [kind |-> "group", name |-> name, repetition |-> Repetition(repeated),
     fields |-> fields]

\* parquet_schema with the List arm translating its element as repeated
\* whatever the context (no todo!() for a list inside a list)
RECURSIVE parquet_schema_nested(_, _, _)
parquet_schema_nested(s, name, repeated) ==
    CASE s.tag = "Null"    -> Primitive(name, "BOOLEAN", repeated, "none")
      [] s.tag = "Bool"    -> Primitive(name, "BOOLEAN", repeated, "none")
      [] s.tag = "Integer" -> Primitive(name, "INT64", repeated, "uint64")
      [] s.tag = "Float"   -> Primitive(name, "DOUBLE", repeated, "none")
      [] s.tag = "String"  -> Primitive(name, "BYTE_ARRAY", repeated, "utf8")
      [] s.tag = "Bytes"   -> Primitive(name, "BYTE_ARRAY", repeated, "none")
      [] s.tag = "Link"    -> Primitive(name, "BYTE_ARRAY", repeated, "none")
      [] s.tag = "List"    -> parquet_schema_nested(s.elem, name, TRUE)
      [] s.tag = "Map"     ->
            Group(name, repeated,
                  [j \in 1..Len(s.fields) |->
                      parquet_schema_nested(s.fields[j][2], s.fields[j][1], FALSE)])

\* fn parquet_schema(schema: &Schema, name: &str, repeated: bool) -> Type
RECURSIVE parquet_schema(_, _, _)
parquet_schema(s, name, repeated) ==
    CASE s.tag = "Null"    -> Primitive(name, "BOOLEAN", repeated, "none")
      [] s.tag = "Bool"    -> Primitive(name, "BOOLEAN", repeated, "none")
      [] s.tag = "Integer" -> Primitive(name, "INT64", repeated, "uint64")
      [] s.tag = "Float"   -> Primitive(name, "DOUBLE", repeated, "none")
      [] s.tag = "String"  -> Primitive(name, "BYTE_ARRAY", repeated, "utf8")
      [] s.tag = "Bytes"   -> Primitive(name, "BYTE_ARRAY", repeated, "none")
      [] s.tag = "Link"    -> Primitive(name, "BYTE_ARRAY", repeated, "none")
      [] s.tag = "List"    ->
            IF repeated THEN Todo ELSE parquet_schema(s.elem, name, TRUE)
      [] s.tag = "Map"     ->
            LET fields == [j \in 1..Len(s.fields) |->
                              parquet_schema(s.fields[j][2], s.fields[j][1], FALSE)]
            IN  IF \E j \in 1..Len(fields) : fields[j] = Todo
                THEN Todo
                ELSE Group(name, repeated, fields)

\* SchemaDescriptor: the leaf columns of a declaration, depth first, each
\* with its path below the root, its maximum repetition level (REPEATED
\* nodes on the path) and maximum definition level (non-REQUIRED nodes).
RECURSIVE Leaves(_, _, _, _)
RECURSIVE LeavesOfFields(_, _, _, _)
LeavesOfFields(fields, path, rep, def) ==
    IF fields = <<>> THEN <<>>
    ELSE Leaves(Head(fields), path, rep, def)
           \o LeavesOfFields(Tail(fields), path, rep, def)

Leaves(node, path, rep, def) ==
    LET r == IF node.repetition = "REPEATED" THEN rep + 1 ELSE rep
        d == IF node.repetition = "REQUIRED" THEN def ELSE def + 1
        p == path \o <<node.name>>
    IN  IF node.kind = "primitive"
        THEN << [path |-> p, ptype |-> node.ptype, annotation |-> node.annotation,
                 max_rep_level |-> r, max_def_level |-> d] >>
        ELSE LeavesOfFields(node.fields, p, r, d)

\* the columns next_column() hands out for a row group, in order
Columns(p_schema) == LeavesOfFields(p_schema.fields, <<>>, 0, 0)

\* ------------------------------------------------------------ the archive
\* libipld::Cid and Cid::to_bytes (version, codec, multihash code, digest
\* length, digest)
Cid(n) == [version |-> 1, codec |-> 113, digest |-> <<n>>]

to_bytes(c) == <<c.version, c.codec, 18, Len(c.digest)>> \o c.digest

\* the raw bytes of a block: the DAG-CBOR encoding of an item, or bytes the
\* decoder rejects
Encoded(dag) == [wellformed |-> TRUE, item |-> dag]

Malformed == [wellformed |-> FALSE]

\* DagCborCodec.decode(&bytes)
decode(bytes) ==
    IF bytes.wellformed THEN [ok |-> TRUE, val |-> bytes.item] ELSE [ok |-> FALSE]

\* str::as_bytes: the UTF-8 encoding of a string given as code points below
\* 2048
RECURSIVE as_bytes(_)
as_bytes(s) ==
    IF s = <<>> THEN <<>>
    ELSE (IF Head(s) < 128 THEN <<Head(s)>>
          ELSE <<192 + (Head(s) \div 64), 128 + (Head(s) % 64)>>) \o as_bytes(Tail(s))

\* i as i64 for an i128 i, at the model's width: keep the low IntBits bits,
\* read as two's complement
AsI64(n) ==
    LET m == n % Pow2(IntBits)
    IN  IF m >= Pow2(IntBits - 1) THEN m - Pow2(IntBits) ELSE m

\* what a reader of the file makes of a stored INT64 under the column's
\* logical annotation: Integer { bit_width: 64, is_signed: false } reads the
\* bits as unsigned
ReadInt64(annotation, stored) ==
    IF annotation = "uint64" THEN stored % Pow2(IntBits) ELSE stored

\* ---------------------------------------------------------------- resolver
\* "0".parse::<usize>(): of the keys the model uses only "0" is a number
ParseUsize(key) == IF key = "0" THEN [ok |-> TRUE, val |-> 0] ELSE [ok |-> FALSE]

\* Ipld::get(key): a Map is indexed by key, a List by a key that parses as an
\* index, anything else is a TypeError
Get(data, key) ==
    CASE data.tag = "Map" ->
            IF key \in DOMAIN data.v
            THEN [ok |-> TRUE, val |-> data.v[key]] ELSE [ok |-> FALSE]
      [] data.tag = "List" ->
            LET n == ParseUsize(key)
            IN  IF n.ok /\ n.val < Len(data.v)
                THEN [ok |-> TRUE, val |-> data.v[n.val + 1]] ELSE [ok |-> FALSE]
      [] OTHER -> [ok |-> FALSE]

\* for p in &path.parts()[1..] { data = data.get(p.to_string())? }
RECURSIVE Walk(_, _)
Walk(data, parts) ==
    IF parts = <<>> THEN [ok |-> TRUE, val |-> data]
    ELSE LET g == Get(data, Head(parts))
         IN  IF g.ok THEN Walk(g.val, Tail(parts)) ELSE [ok |-> FALSE]

\* resolve_index without the reset of the first level (values[0].1 = 0)
resolve_index_no_reset(cid, data, bytes, path, max_rep_level) ==
    LET root == path[1]
    IN  CASE root = "cid" ->
                [ok |-> TRUE, pairs |-> << <<ILink(cid), 0>> >>]
          [] root = "data" ->
                LET w == Walk(data, Tail(path))
                IN  IF ~w.ok THEN [ok |-> FALSE, err |-> "type error"]
                    ELSE IF w.val.tag = "List"
                    THEN [ok |-> TRUE,
                          pairs |-> [j \in 1..Len(w.val.v) |->
                                       <<w.val.v[j], max_rep_level>>]]
                    ELSE [ok |-> TRUE, pairs |-> << <<w.val, 0>> >>]
          [] root = "rawdata" ->
                [ok |-> TRUE, pairs |-> << <<IBytes(bytes), 0>> >>]
          [] OTHER -> [ok |-> FALSE, err |-> "unexpected root path"]

\* fn resolve_index(cid, data, bytes, path, max_rep_level)
\*   -> Result<Vec<(Ipld, i16)>>
resolve_index(cid, data, bytes, path, max_rep_level) ==
    LET root == path[1]
    IN  CASE root = "cid" ->
                [ok |-> TRUE, pairs |-> << <<ILink(cid), 0>> >>]
          [] root = "data" ->
                LET w == Walk(data, Tail(path))
                IN  IF ~w.ok THEN [ok |-> FALSE, err |-> "type error"]
                    ELSE IF w.val.tag = "List"
                    THEN [ok |-> TRUE,
                          pairs |-> [j \in 1..Len(w.val.v) |->
                                       <<w.val.v[j], IF j = 1 THEN 0 ELSE max_rep_level>>]]
                    ELSE [ok |-> TRUE, pairs |-> << <<w.val, 0>> >>]
          [] root = "rawdata" ->
                [ok |-> TRUE, pairs |-> << <<IBytes(bytes), 0>> >>]
          [] OTHER -> [ok |-> FALSE, err |-> "unexpected root path"]

\* ----------------------------------------------------------------- emission
\* Coerce with the INT64 arm substituting 0 for a value that is no Integer
Coerce_substituting(ptype, v) ==
    CASE ptype = "BOOLEAN" ->
            IF v.tag = "Bool" THEN [ok |-> TRUE, val |-> v.v] ELSE [ok |-> FALSE]
      [] ptype = "INT64" ->
            IF v.tag = "Integer" THEN [ok |-> TRUE, val |-> AsI64(v.v)]
            ELSE [ok |-> TRUE, val |-> 0]
      [] ptype = "DOUBLE" ->
            IF v.tag = "Float" THEN [ok |-> TRUE, val |-> v.v] ELSE [ok |-> FALSE]
      [] ptype = "BYTE_ARRAY" ->
            CASE v.tag = "String" -> [ok |-> TRUE, val |-> as_bytes(v.v)]
              [] v.tag = "Bytes"  -> [ok |-> TRUE, val |-> v.v]
              [] v.tag = "Link"   -> [ok |-> TRUE, val |-> to_bytes(v.v)]
              [] v.tag = "Null"   -> [ok |-> TRUE, val |-> <<>>]
              [] OTHER -> [ok |-> FALSE]

\* the match arm of parquet_write_col for one value of a column of the given
\* physical type (the translator declares no INT32, INT96, FLOAT or
\* FIXED_LEN_BYTE_ARRAY column)
Coerce(ptype, v) ==
    CASE ptype = "BOOLEAN" ->
            IF v.tag = "Bool" THEN [ok |-> TRUE, val |-> v.v] ELSE [ok |-> FALSE]
      [] ptype = "INT64" ->
            IF v.tag = "Integer" THEN [ok |-> TRUE, val |-> AsI64(v.v)]
            ELSE [ok |-> FALSE]
      [] ptype = "DOUBLE" ->
            IF v.tag = "Float" THEN [ok |-> TRUE, val |-> v.v] ELSE [ok |-> FALSE]
      [] ptype = "BYTE_ARRAY" ->
            CASE v.tag = "String" -> [ok |-> TRUE, val |-> as_bytes(v.v)]
              [] v.tag = "Bytes"  -> [ok |-> TRUE, val |-> v.v]
              [] v.tag = "Link"   -> [ok |-> TRUE, val |-> to_bytes(v.v)]
              [] v.tag = "Null"   -> [ok |-> TRUE, val |-> <<>>]
              [] OTHER -> [ok |-> FALSE]

RECURSIVE Concat(_)
Concat(ss) == IF ss = <<>> THEN <<>> ELSE Head(ss) \o Concat(Tail(ss))

\* fn parquet_write_col(col_writer, cids) up to the write_batch call:
\* "panic" when a path does not resolve (expect), "bad type" when a value
\* does not coerce, otherwise the batch handed to write_batch
parquet_write_col(desc, cids) ==
    LET resolved == [j \in 1..Len(cids) |->
                        resolve_index(cids[j].cid, cids[j].dag, cids[j].bytes,
                                      desc.path, desc.max_rep_level)]
    IN  IF \E j \in 1..Len(cids) : ~resolved[j].ok
        THEN [outcome |-> "panic", resolved |-> resolved]
        ELSE LET pairs == Concat([j \in 1..Len(cids) |-> resolved[j].pairs])
                 values == [k \in 1..Len(pairs) |-> pairs[k][1]]
                 rep_levels == [k \in 1..Len(pairs) |-> pairs[k][2]]
                 def_levels == IF desc.max_def_level > 0
                               THEN [some |-> TRUE,
                                     levels |-> [k \in 1..Len(values) |-> desc.max_def_level]]
                               ELSE [some |-> FALSE]
                 coerced == [k \in 1..Len(values) |-> Coerce(desc.ptype, values[k])]
             IN  IF \E k \in 1..Len(values) : ~coerced[k].ok
                 THEN [outcome |-> "bad type", resolved |-> resolved]
                 ELSE [outcome |-> "batch", resolved |-> resolved,
                       batch |-> [path |-> desc.path,
                                  values |-> [k \in 1..Len(values) |-> coerced[k].val],
                                  def_levels |-> def_levels,
                                  rep_levels |-> rep_levels]]

\* rows the column writer counts for a batch: one per value of a flat
\* column, one per repetition level 0 of a repeated one
RowsOf(desc, batch) ==
    IF desc.max_rep_level > 0
    THEN Len(SelectSeq(batch.rep_levels, LAMBDA l : l = 0))
    ELSE Len(batch.values)

\* ------------------------------------------------------------------ inputs
\* the payloads a block of the modelled archive may hold
Payloads ==
    << IMap([k \in {"x", "y"} |-> IF k = "x" THEN IInteger(5) ELSE IString(<<97>>)]),
       IMap([k \in {"x", "y"} |-> IF k = "x" THEN IInteger(-1) ELSE IString(<<233>>)]),
       IMap([k \in {"f", "k", "l", "m", "s"} |->
               CASE k = "f" -> IFloat(15)
                 [] k = "k" -> ILink(Cid(9))
                 [] k = "l" -> IList(<<IInteger(5), IInteger(6)>>)
                 [] k = "m" -> IMap([j \in {"x"} |-> IBool(TRUE)])
                 [] k = "s" -> IBytes(<<0, 255>>)]),
       IMap([k \in {"n"} |-> INull]),
       IList(<<IInteger(5), IInteger(Pow2(IntBits - 1)), IInteger(Pow2(IntBits) - 1)>>),
       IList(<<>>),
       IList(<<IInteger(5), IString(<<97>>)>>),
       IList(<<IMap([k \in {"x"} |-> IInteger(5)])>>),
       IMap([k \in {"l"} |-> IList(<<IList(<<>>)>>)]) >>

\* a block of the archive: a content identifier and the raw bytes
Block(n) == [cid |-> Cid(n), bytes |-> Encoded(Payloads[n])]

BadBlock == [cid |-> Cid(0), bytes |-> Malformed]

Blocks == {Block(n) : n \in 1..Len(Payloads)} \cup {BadBlock}

\* the blocks of the archives that exercise grouping and bucket order: two
\* maps of one shape, two lists of one shape, an empty list, a list of
\* lists, bad bytes
GroupingBlocks == {Block(n) : n \in {1, 2, 5, 6, 7, 9}} \cup {BadBlock}

Archives == UNION {[1..n -> Blocks] : n \in 0..MaxBlocks}

LongArchives == UNION {[1..n -> GroupingBlocks] : n \in 0..MaxRecords}

\* ------------------------------------------------------------------- state
VARIABLES
    car,        \* the blocks of all.car, in file order
    pos,        \* blocks next_block() has returned so far
    schemas,    \* HashMap<Schema, Vec<(Cid, Ipld, Vec<u8>)>> of the read loop
    buckets,    \* the sorted Vec<(Schema, Vec<..>)> (the second `schemas`)
    i,          \* index of the bucket being written (the file is schema_{i-1})
    col,        \* columns of the current row group already handed out
    p_schema,   \* the declaration of the current bucket
    files,      \* the files under out/: state, row count, batches written
    last,       \* the latest parquet_write_col call: bucket, column, result
    events,     \* writer calls that returned Ok, in call order
    pc,         \* "read", "bucket", "column", "done", "error", "panic"
    err         \* what ended the run

vars == <<car, pos, schemas, buckets, i, col, p_schema, files, last, events, pc, err>>

NoSchema == [kind |-> "none"]

NoCall == [bucket |-> 0]

Ev(op, f, c) == [op |-> op, file |-> f, column |-> c]

Start ==
    /\ pos = 0
    /\ schemas = << >>
    /\ buckets = << >>
    /\ i = 0
    /\ col = 0
    /\ p_schema = NoSchema
    /\ files = << >>
    /\ last = NoCall
    /\ events = << >>
    /\ pc = "read"
    /\ err = "none"

\* all.car holds a few blocks of any kind
Init == car \in Archives /\ Start

\* all.car holds more blocks, of few kinds
InitGrouping == car \in LongArchives /\ Start

\* the grouping step with insert in place of entry().or_default().push()
entry_insert(map, key, rec) ==
    [k \in DOMAIN map \cup {key} |-> IF k = key THEN <<rec>> ELSE map[k]]

\* schemas.entry(key).or_default().push((cid, dag, bytes))
entry_or_default_push(map, key, rec) ==
    IF key \in DOMAIN map
    THEN [map EXCEPT ![key] = Append(@, rec)]
    ELSE [k \in DOMAIN map \cup {key} |-> IF k = key THEN <<rec>> ELSE map[k]]

\* one turn of the read loop that gets a block (lines 23-32)
ReadBlock ==
    /\ pc = "read"
    /\ pos < Len(car)
    /\ pos' = pos + 1
    /\ LET blk == car[pos + 1]
           dag == decode(blk.bytes)
       IN  IF dag.ok
           THEN /\ schemas' = entry_or_default_push(schemas, RecordSchema(dag.val),
                                 [cid |-> blk.cid, dag |-> dag.val, bytes |-> blk.bytes])
                /\ UNCHANGED <<pc, err>>
           ELSE /\ pc' = "error"
                /\ err' = "decode"
                /\ UNCHANGED schemas
    /\ UNCHANGED <<car, buckets, i, col, p_schema, files, last, events>>

\* schemas.into_iter().collect() followed by sort_unstable_by_key(|s|
\* s.1.len()): the map's iteration order is arbitrary and the sort is
\* unstable, so any arrangement with ascending lengths can result
sort_unstable_by_key(map) ==
    LET n == Cardinality(DOMAIN map)
    IN  { [j \in 1..n |-> [schema |-> f[j], cids |-> map[f[j]]]] :
            f \in { g \in [1..n -> DOMAIN map] :
                      /\ \A a, b \in 1..n : a # b => g[a] # g[b]
                      /\ \A a, b \in 1..n : a < b => Len(map[g[a]]) <= Len(map[g[b]]) } }

\* the sorted vector left as it is (ascending)
reverse_missing(v) == v

\* Vec::reverse
reverse(v) == [j \in 1..Len(v) |-> v[Len(v) + 1 - j]]

\* the read loop ends (next_block() returns None); lines 38-44
EndOfInput ==
    /\ pc = "read"
    /\ pos = Len(car)
    /\ \E sorted \in sort_unstable_by_key(schemas) :
          /\ buckets' = reverse(sorted)
          /\ IF Len(sorted) = 0
             THEN pc' = "done" /\ i' = 0
             ELSE pc' = "bucket" /\ i' = 1
    /\ UNCHANGED <<car, pos, schemas, col, p_schema, files, last, events, err>>

\* where an I/O call of the writer may fail (std::fs / parquet errors)
BeginOutcomes == {"ok", "create", "new", "next_row_group"}

\* the head of the loop over buckets (lines 46-60): translate the shape,
\* create the file, build the writer, begin the row group
BeginBucket ==
    /\ pc = "bucket"
    /\ LET p == parquet_schema(buckets[i].schema, "", FALSE)
       IN  IF p = Todo
           THEN /\ pc' = "panic"
                /\ err' = "not yet implemented"
                /\ UNCHANGED <<p_schema, files, events, col>>
           ELSE \E io \in BeginOutcomes :
                /\ p_schema' = p
                /\ col' = 0
                /\ files' = IF io = "create" THEN files
                            ELSE Append(files, [state |-> "open", rows |-> -1,
                                                columns |-> << >>])
                /\ events' = events \o
                      CASE io = "create" -> << >>
                        [] io = "new" -> <<Ev("create", i, 0)>>
                        [] io = "next_row_group" ->
                              <<Ev("create", i, 0), Ev("new", i, 0)>>
                        [] OTHER -> <<Ev("create", i, 0), Ev("new", i, 0),
                                      Ev("next_row_group", i, 0)>>
                /\ IF io = "ok"
                   THEN pc' = "column" /\ UNCHANGED err
                   ELSE pc' = "error" /\ err' = "writer"
    /\ UNCHANGED <<car, pos, schemas, buckets, i, last>>

ColumnOutcomes == {"ok", "write_batch", "close"}

\* one turn of the loop over the columns of the row group (lines 61-68)
WriteColumn ==
    /\ pc = "column"
    /\ col < Len(Columns(p_schema))
    /\ LET desc == Columns(p_schema)[col + 1]
           res == parquet_write_col(desc, buckets[i].cids)
           got == Ev("next_column", i, col + 1)
       IN  /\ last' = [bucket |-> i, column |-> col + 1, desc |-> desc, res |-> res]
           /\ col' = col + 1
           /\ CASE res.outcome = "panic" ->
                     /\ pc' = "panic"
                     /\ err' = "data path should resolve"
                     /\ events' = Append(events, got)
                     /\ UNCHANGED files
                [] res.outcome = "bad type" ->
                     /\ pc' = "error"
                     /\ err' = "bad type"
                     /\ events' = Append(events, got)
                     /\ UNCHANGED files
                [] OTHER ->
                     \E io \in ColumnOutcomes :
                        LET rows == RowsOf(desc, res.batch)
                            mismatch == files[i].rows # -1 /\ files[i].rows # rows
                            wrote == io # "write_batch"
                            closed == io = "ok" /\ ~mismatch
                        IN  /\ files' = IF wrote
                                        THEN [files EXCEPT
                                                ![i].columns = Append(@, res.batch),
                                                ![i].rows = IF closed /\ @ = -1
                                                            THEN rows ELSE @]
                                        ELSE files
                            /\ events' = events \o <<got>>
                                  \o (IF wrote THEN <<Ev("write_batch", i, col + 1)>>
                                      ELSE << >>)
                                  \o (IF closed THEN <<Ev("close_column", i, col + 1)>>
                                      ELSE << >>)
                            /\ IF closed
                               THEN UNCHANGED <<pc, err>>
                               ELSE /\ pc' = "error"
                                    /\ err' = IF io = "ok" THEN "incorrect number of rows"
                                              ELSE "writer"
    /\ UNCHANGED <<car, pos, schemas, buckets, i, p_schema>>

CloseOutcomes == {"ok", "close_row_group", "close_writer"}

\* next_column() returns None; the row group and the file writer are closed
\* (lines 69-70) and the loop moves to the next bucket
CloseBucket ==
    /\ pc = "column"
    /\ col = Len(Columns(p_schema))
    /\ \E io \in CloseOutcomes :
          /\ events' = events \o
                CASE io = "close_row_group" -> << >>
                  [] io = "close_writer" -> <<Ev("close_row_group", i, 0)>>
                  [] OTHER -> <<Ev("close_row_group", i, 0), Ev("close_writer", i, 0)>>
          /\ IF io = "ok"
             THEN /\ files' = [files EXCEPT ![i].state = "closed"]
                  /\ i' = i + 1
                  /\ pc' = IF i = Len(buckets) THEN "done" ELSE "bucket"
                  /\ UNCHANGED err
             ELSE /\ pc' = "error"
                  /\ err' = "writer"
                  /\ UNCHANGED <<files, i>>
    /\ UNCHANGED <<car, pos, schemas, buckets, col, p_schema, last>>

Next ==
    \/ ReadBlock
    \/ EndOfInput
    \/ BeginBucket
    \/ WriteColumn
    \/ CloseBucket

Spec == Init /\ [][Next]_vars

SpecGrouping == InitGrouping /\ [][Next]_vars

\* ------------------------------------------------------------- properties
IsPrefix(a, b) == Len(a) <= Len(b) /\ SubSeq(b, 1, Len(a)) = a

Terminated == pc \in {"done", "error", "panic"}

\* the record main keeps for block k of the archive
Rec(k) == [cid |-> car[k].cid, dag |-> decode(car[k].bytes).val, bytes |-> car[k].bytes]

\* the blocks read so far all decoded
AllDecoded == \A k \in 1..pos : decode(car[k].bytes).ok

\* the whole-record shapes of the blocks read so far, in input order
InputShapes == [k \in 1..pos |-> RecordSchema(Rec(k).dag)]

\* the records read so far whose whole-record shape is s, in input order
InputOfShape(shapes, s) ==
    LET idx == SelectSeq([k \in 1..pos |-> k], LAMBDA k : shapes[k] = s)
    IN  [j \in 1..Len(idx) |-> Rec(idx[j])]

\* C1: grouping is a partition by shape.  While blocks are read, the map's
\* keys are exactly the whole-record shapes Map[("cid", Bytes), ("data",
\* infer(payload))] of the records read, and each bucket holds exactly the
\* records of its shape, once each, in input order; after the loop the
\* sorted vector holds those buckets for the whole archive, one per shape.
GroupingIsPartition ==
    AllDecoded =>
        LET shapes == InputShapes
        IN  IF pc = "read"
            THEN /\ DOMAIN schemas = {shapes[k] : k \in 1..pos}
                 /\ \A s \in DOMAIN schemas : schemas[s] = InputOfShape(shapes, s)
            ELSE /\ pos = Len(car)
                 /\ {buckets[b].schema : b \in 1..Len(buckets)}
                       = {shapes[k] : k \in 1..pos}
                 /\ \A a, b \in 1..Len(buckets) :
                       a # b => buckets[a].schema # buckets[b].schema
                 /\ \A b \in 1..Len(buckets) :
                       buckets[b].cids = InputOfShape(shapes, buckets[b].schema)

\* C1 witness: the loop has ended with two buckets, one of them holding two
\* different records of one shape
GroupingWitness ==
    /\ pc # "read"
    /\ Len(buckets) >= 2
    /\ \E b \in 1..Len(buckets) :
          /\ Len(buckets[b].cids) >= 2
          /\ buckets[b].cids[1] # buckets[b].cids[2]

\* the sub-value the latest call resolved for record j of its bucket
LastSub(j) == Walk(buckets[last.bucket].cids[j].dag, Tail(last.desc.path))

LastOnData == last # NoCall /\ last.desc.path[1] = "data"

\* C2: for a column rooted at "data", a record whose sub-value is a
\* non-empty List of n elements yields n pairs, the elements in list order,
\* the first at level 0 and the others at maxRepetitionLevel; a record whose
\* sub-value is no List yields the one pair (value, 0).
ListLevels ==
    LastOnData =>
        \A j \in 1..Len(buckets[last.bucket].cids) :
            LET w == LastSub(j)
                r == last.res.resolved[j]
            IN  w.ok =>
                  /\ r.ok
                  /\ (w.val.tag = "List" /\ Len(w.val.v) > 0) =>
                        /\ Len(r.pairs) = Len(w.val.v)
                        /\ \A k \in 1..Len(r.pairs) :
                              /\ r.pairs[k][1] = w.val.v[k]
                              /\ r.pairs[k][2] =
                                    IF k = 1 THEN 0 ELSE last.desc.max_rep_level
                  /\ w.val.tag # "List" => r.pairs = << <<w.val, 0>> >>

\* C2 witness: a list of three elements was resolved for a repeated column
\* and gave three pairs
ListLevelsWitness ==
    /\ LastOnData
    /\ last.desc.max_rep_level > 0
    /\ \E j \in 1..Len(buckets[last.bucket].cids) :
          /\ LastSub(j).ok
          /\ LastSub(j).val.tag = "List"
          /\ Len(LastSub(j).val.v) = 3
          /\ Len(last.res.resolved[j].pairs) = 3

\* C3: for a column rooted at "data", a record whose sub-value is an empty
\* List yields exactly one pair (the Null collapse).
EmptyListOnePair ==
    LastOnData =>
        \A j \in 1..Len(buckets[last.bucket].cids) :
            LET w == LastSub(j)
            IN  (w.ok /\ w.val.tag = "List" /\ Len(w.val.v) = 0) =>
                    /\ last.res.resolved[j].ok
                    /\ Len(last.res.resolved[j].pairs) = 1

\* C4: no partial output.  When the run has ended, normally or by an error
\* or a panic, every file that exists under out/ was closed by the writer.
NoPartialOutput ==
    Terminated => \A f \in 1..Len(files) : files[f].state = "closed"

\* the tags a column of a physical type takes
ExpectedTags(ptype) ==
    CASE ptype = "BOOLEAN"    -> {"Bool"}
      [] ptype = "INT64"      -> {"Integer"}
      [] ptype = "DOUBLE"     -> {"Float"}
      [] ptype = "BYTE_ARRAY" -> {"String", "Bytes", "Link", "Null"}

\* the values the latest call resolved, over all records of the bucket
LastValues ==
    LET pairs == Concat([j \in 1..Len(last.res.resolved) |-> last.res.resolved[j].pairs])
    IN  [k \in 1..Len(pairs) |-> pairs[k][1]]

LastResolved == last # NoCall /\ last.res.outcome # "panic"

\* C5: type-mismatch fatality.  When a value resolved for a column has a tag
\* the column's physical type does not take, the call ends in "bad type",
\* the run is aborted, and nothing was written to that column: no
\* write_batch call and no batch in the file.
TypeMismatchFatal ==
    (LastResolved /\ \E k \in 1..Len(LastValues) :
                        LastValues[k].tag \notin ExpectedTags(last.desc.ptype)) =>
        /\ last.res.outcome = "bad type"
        /\ pc = "error"
        /\ err = "bad type"
        /\ Len(files[last.bucket].columns) = last.column - 1
        /\ \A e \in 1..Len(events) :
              ~(/\ events[e].op \in {"write_batch", "close_column"}
                /\ events[e].file = last.bucket
                /\ events[e].column = last.column)

\* C5 witness: a String was resolved for a column declared INT64
TypeMismatchWitness ==
    /\ LastResolved
    /\ last.desc.ptype = "INT64"
    /\ \E k \in 1..Len(LastValues) : LastValues[k].tag = "String"
    /\ err = "bad type"

\* the writer calls one bucket takes when nothing fails
ProtocolOf(b) ==
    LET p == parquet_schema(buckets[b].schema, "", FALSE)
        n == IF p = Todo THEN 0 ELSE Len(Columns(p))
        percol == [c \in 1..n |-> <<Ev("next_column", b, c), Ev("write_batch", b, c),
                                    Ev("close_column", b, c)>>]
    IN  <<Ev("create", b, 0), Ev("new", b, 0), Ev("next_row_group", b, 0)>>
          \o Concat(percol)
          \o <<Ev("close_row_group", b, 0), Ev("close_writer", b, 0)>>

FullProtocol == Concat([b \in 1..Len(buckets) |-> ProtocolOf(b)])

\* C6: writer protocol order.  No writer call is made before the whole
\* archive is decoded and grouped; the buckets are in descending order of
\* record count; the calls made so far are an initial part of: for each
\* bucket in turn, create, new, one next_row_group, then per column in
\* schema order next_column, one write_batch, close, then the row group's
\* close and the file writer's close; the batches in a file are those of the
\* schema's columns in order; a run that ends normally made all the calls.
ProtocolOrder ==
    /\ events # << >> => (pc # "read" /\ pos = Len(car) /\ AllDecoded)
    /\ \A a, b \in 1..Len(buckets) :
          a < b => Len(buckets[a].cids) >= Len(buckets[b].cids)
    /\ IsPrefix(events, FullProtocol)
    /\ \A f \in 1..Len(files) :
          LET cs == Columns(parquet_schema(buckets[f].schema, "", FALSE))
          IN  /\ Len(files[f].columns) <= Len(cs)
              /\ \A c \in 1..Len(files[f].columns) :
                    files[f].columns[c].path = cs[c].path
    /\ pc = "done" => events = FullProtocol

\* C6 witness: a run ended normally after writing a larger bucket and then a
\* smaller one
ProtocolWitness ==
    /\ pc = "done"
    /\ Len(buckets) >= 2
    /\ Len(buckets[1].cids) > Len(buckets[2].cids)
    /\ Len(files) = Len(buckets)

\* C7: round-trip scalar fidelity.  For an Integer field of a map payload,
\* the value written to the field's INT64 column, read back under the
\* column's logical annotation, is the original integer.
IntegerRoundTrip ==
    (/\ last # NoCall
     /\ last.res.outcome = "batch"
     /\ last.desc.ptype = "INT64"
     /\ last.desc.max_rep_level = 0
     /\ Len(last.desc.path) = 2) =>
        \A k \in 1..Len(LastValues) :
            ReadInt64(last.desc.annotation, last.res.batch.values[k]) = LastValues[k].v

\* a List whose element shape is a List, anywhere in the shape
RECURSIVE HasListOfList(_)
HasListOfList(s) ==
    CASE s.tag = "List" -> s.elem.tag = "List" \/ HasListOfList(s.elem)
      [] s.tag = "Map"  -> \E j \in 1..Len(s.fields) : HasListOfList(s.fields[j][2])
      [] OTHER -> FALSE

\* the physical type table
PhysicalOf(tag) ==
    CASE tag \in {"Null", "Bool"} -> "BOOLEAN"
      [] tag = "Integer" -> "INT64"
      [] tag = "Float" -> "DOUBLE"
      [] tag \in {"String", "Bytes", "Link"} -> "BYTE_ARRAY"

\* d declares shape s as field name: a List is its element's declaration
\* marked REPEATED under the same name, a Map a group of its fields'
\* declarations in the shape's key order, every field outside a List
\* position REQUIRED
RECURSIVE Declares(_, _, _, _)
Declares(s, name, repeated, d) ==
    CASE s.tag = "List" -> ~repeated /\ Declares(s.elem, name, TRUE, d)
      [] s.tag = "Map" ->
            /\ d.kind = "group"
            /\ d.name = name
            /\ d.repetition = (IF repeated THEN "REPEATED" ELSE "REQUIRED")
            /\ Len(d.fields) = Len(s.fields)
            /\ \A j \in 1..Len(s.fields) :
                  Declares(s.fields[j][2], s.fields[j][1], FALSE, d.fields[j])
            /\ \A a, b \in 1..Len(s.fields) :
                  a < b => KeyRank(s.fields[a][1]) < KeyRank(s.fields[b][1])
      [] OTHER ->
            /\ d.kind = "primitive"
            /\ d.name = name
            /\ d.repetition = (IF repeated THEN "REPEATED" ELSE "REQUIRED")
            /\ d.ptype = PhysicalOf(s.tag)

\* the translator has run for bucket b
Translated(b) == b < i \/ (b = i /\ pc # "bucket")

\* C8: the translator fails fast exactly on list-of-list.  The run panics
\* with "not yet implemented" at a bucket exactly when that bucket's shape
\* has a List whose element is a List; every other bucket gets a declaration
\* of its shape.
TranslatorTotal ==
    \A b \in 1..Len(buckets) :
        Translated(b) =>
            /\ (b = i /\ pc = "panic" /\ err = "not yet implemented")
                  <=> HasListOfList(buckets[b].schema)
            /\ (b = i /\ ~HasListOfList(buckets[b].schema)) =>
                  Declares(buckets[b].schema, "", FALSE, p_schema)

\* C8 witness: a bucket with a list field and a nested map was translated
\* and written, and the next bucket's list of lists stopped the run
TranslatorWitness ==
    /\ pc = "panic"
    /\ err = "not yet implemented"
    /\ i >= 2
    /\ files[1].state = "closed"
    /\ \E c \in 1..Len(files[1].columns) :
          Len(files[1].columns[c].path) = 3

\* the payload is a map whose fields are all scalars
ScalarMap(dag) ==
    /\ dag.tag = "Map"
    /\ \A k \in DOMAIN dag.v : dag.v[k].tag \notin {"List", "Map"}

\* C9: translator and emitter agree on scalars.  A bucket of records whose
\* payloads are maps of scalar fields is written without a "bad type" error.
ScalarsEmit ==
    (/\ last # NoCall
     /\ \A j \in 1..Len(buckets[last.bucket].cids) :
           ScalarMap(buckets[last.bucket].cids[j].dag)) =>
        last.res.outcome # "bad type"

\* C10: every leaf column path of a bucket's schema resolves for every
\* record of the bucket, so the "data path should resolve" panic does not
\* happen.
PathsResolve ==
    last # NoCall =>
        /\ last.res.outcome # "panic"
        /\ \A j \in 1..Len(last.res.resolved) : last.res.resolved[j].ok

====
